---------------------------- MODULE Spec2Model ----------------------------
(***************************************************************************)
(* Model of archive_inactive_jira_projects.py: the module-level            *)
(* configuration check, main(), find_inactive_projects(),                  *)
(* archive_project() and notify_slack(), with the four external HTTP       *)
(* services as nondeterministic environments.                              *)
(*                                                                         *)
(* Time is counted in ticks, DayTicks ticks to a day.  An optional value   *)
(* (Python None or a value) is a sequence of length 0 or 1.                *)
(***************************************************************************)
EXTENDS Integers, Sequences, FiniteSets, TLC

(* ------------------------------ bounds -------------------------------- *)
MaxProjects == 2      \* distinct workspaces the listing API knows
MaxListed   == 2      \* workspaces listed over one run, all pages together
MaxTotal    == 101    \* largest "total" a listing response reports
DayTicks    == 2      \* clock ticks per day

(* ------------------------- program constants -------------------------- *)
DEFAULT_INACTIVE_DAYS == 180
max_results           == 50
HTTP_ACCEPTED         == 202

(* --------------------------- environment ------------------------------ *)
None == << >>
Some(v) == << v >>

\* datetime.now(timezone.utc) as read at the start of the scan
Now == 0

EnvNames == {"JIRA_EMAIL", "JIRA_API_TOKEN", "JIRA_DOMAIN", "SLACK_WEBHOOK_URL"}
\* os.getenv: unset (None), set to the empty string, or set to a value
EnvValues == {"unset", "", "x"}

ProjectIds == 1..MaxProjects
KeyOf(i)  == IF i <= 4 THEN <<"A", "B", "C", "D">>[i] ELSE ToString(i)
NameOf(i) == IF i <= 4 THEN <<"Alpha", "Beta", "Gamma", "Delta">>[i]
             ELSE ToString(i)
\* one element of data["values"]
Project(i) == [id |-> i, key |-> KeyOf(i), name |-> NameOf(i)]

\* values of --days on the command line
DayArgs == {-1, 0}
Argvs == [daysKind : {"absent"}, daysVal : {0}, dry : BOOLEAN]
         \cup [daysKind : {"int"}, daysVal : DayArgs, dry : BOOLEAN]
         \cup [daysKind : {"bad"}, daysVal : {0}, dry : {FALSE}]

\* "total" values a listing response may report
Totals == {0, max_results, max_results + 1, MaxTotal}

\* sequences over S of length at most n
RECURSIVE SeqsUpTo(_, _)
SeqsUpTo(S, n) ==
    IF n = 0 THEN {<< >>}
    ELSE LET shorter == SeqsUpTo(S, n - 1)
         IN  shorter \cup {Append(s, x) : s \in {t \in shorter : Len(t) = n - 1}, x \in S}

\* HTTP statuses the listing and activity APIs answer with
ReadStatuses == {200, 403}
\* HTTP statuses the archive API answers with
ArchiveStatuses == {HTTP_ACCEPTED, 200, 403}
\* the outcome of one requests.get / requests.post: an exception raised by
\* the transport, or a response with a status
Transport == {"raised"} \cup {"response"}

(* ----------------------------- helpers -------------------------------- *)
\* variant: the status of the response is never looked at
raise_for_status_never(status) == FALSE

\* Response.raise_for_status(): raises HTTPError for 4xx and 5xx
raise_for_status(status) == status >= 400 /\ status < 600

\* timedelta(days=d)
timedelta(d) == d * DayTicks

\* dateutil.parser.isoparse: a timestamp string carries a local time and a
\* UTC offset; the result is an aware datetime
isoparse(s) == [local |-> s[1], off |-> s[2]]

\* the instant an aware datetime denotes; aware datetimes compare by it
Instant(dt) == dt.local - dt.off

\* variant: updated_at <= cutoff
IsOlder_le(updated_at, c) == Instant(updated_at) <= c

\* updated_at < cutoff
IsOlder(updated_at, c) == Instant(updated_at) < c

\* variant: one value that is set is enough
ConfigOk_any(e) == \E n \in EnvNames : e[n] \notin {"unset", ""}

\* if not all([...]): a value is falsy when unset or empty
ConfigOk(e) == \A n \in EnvNames : e[n] \notin {"unset", ""}

(* ------------------------------ state --------------------------------- *)
VARIABLES
    env,        \* the four configuration values
    jira,       \* the Jira site the run talks to: any behaviour at all, or a
                \* static collection of n workspaces served page by page
    argv,       \* the command line
    pc,         \* position of the process
    exitCode,   \* None while running, Some(code) once the process has ended
    args,       \* parsed arguments: [days, dry_run]
    cutoff,     \* find_inactive_projects: cutoff (None before the scan)
    inactive,   \* find_inactive_projects / main: inactive
    start_at,   \* find_inactive_projects: start_at
    total,      \* find_inactive_projects: total (None or a number)
    values,     \* the part of data["values"] the for loop has yet to visit
    issues,     \* the issues of the last activity response (None before)
    resp,       \* status of the last Jira response (None before, and when
                \* the request raised instead of returning)
    i,          \* main: position of "for p in inactive"
    archived,   \* main: archived
    failed,     \* main: failed
    calls,      \* history: every external request, in order
    first_total,\* history: the total of the first listing response (None before)
    sent,       \* history: every message passed to notify_slack, and whether
                \* the webhook took it
    error       \* why the process ended abnormally ("" when it did not)

vars == << env, jira, argv, pc, exitCode, args, cutoff, inactive, start_at, total,
           values, issues, resp, i, archived, failed, calls, first_total, sent, error >>

scanVars == << cutoff, inactive, start_at, total, values, issues >>
loopVars == << i, archived, failed >>

\* a Jira site that may answer anything
AnySite == [kind |-> "any", n |-> 0, pattern |-> 0]

\* Jira sites with a static collection of n workspaces, ids 1..n in listing
\* order; pattern fixes which of them have which newest issue
StaticSites == [kind : {"static"}, n : Totals, pattern : 0..2]

\* everything but the Jira site
InitRest ==
    /\ env \in [EnvNames -> EnvValues]
    /\ argv \in Argvs
    /\ pc = "config"
    /\ exitCode = None
    /\ args = [days |-> 0, dry_run |-> FALSE]
    /\ cutoff = None
    /\ inactive = << >>
    /\ start_at = 0
    /\ total = None
    /\ values = << >>
    /\ issues = None
    /\ resp = None
    /\ i = 1
    /\ archived = << >>
    /\ failed = << >>
    /\ calls = << >>
    /\ first_total = None
    /\ sent = << >>
    /\ error = ""

Init ==
    /\ jira = AnySite
    /\ InitRest

\* the run talks to a static, well-behaved Jira site
InitStatic ==
    /\ jira \in StaticSites
    /\ InitRest

\* variant: an uncaught exception leaves the exit status at 0
Crash_exitsZero(why) ==
    /\ pc' = "crashed"
    /\ exitCode' = Some(0)
    /\ error' = why

\* an exception nobody catches: traceback, exit status 1
Crash(why) ==
    /\ pc' = "crashed"
    /\ exitCode' = Some(1)
    /\ error' = why

(* ------------------- module-level configuration check ----------------- *)
ConfigCheck ==
    /\ pc = "config"
    /\ IF ConfigOk(env)
       THEN /\ pc' = "main"
            /\ UNCHANGED << exitCode, error >>
       ELSE \* sys.exit("...") : message on stderr, exit status 1
            /\ pc' = "exit"
            /\ exitCode' = Some(1)
            /\ error' = "config"
    /\ UNCHANGED << resp, env, jira, argv, args, scanVars, loopVars, calls, first_total, sent >>

(* ------------------------------- main --------------------------------- *)
\* parser.parse_args(argv)
ParseArgs ==
    /\ pc = "main"
    /\ IF argv.daysKind = "bad"
       THEN \* type=int fails: argparse prints usage and exits with status 2
            /\ pc' = "exit"
            /\ exitCode' = Some(2)
            /\ error' = "usage"
            /\ UNCHANGED args
       ELSE /\ args' = [days    |-> IF argv.daysKind = "absent"
                                    THEN DEFAULT_INACTIVE_DAYS
                                    ELSE argv.daysVal,
                        dry_run |-> argv.dry]
            /\ pc' = "find"
            /\ UNCHANGED << exitCode, error >>
    /\ UNCHANGED << resp, env, jira, argv, scanVars, loopVars, calls, first_total, sent >>

(* ----------------------- find_inactive_projects ----------------------- *)
\* cutoff, inactive, start_at, max_results, total
FindStart ==
    /\ pc = "find"
    /\ cutoff' = Some(Now - timedelta(args.days))
    /\ inactive' = << >>
    /\ start_at' = 0
    /\ total' = None
    /\ pc' = "while"
    /\ UNCHANGED << resp, env, jira, argv, exitCode, args, values, issues, loopVars,
                    calls, first_total, sent, error >>

\* variant: the loop compares start_at with the total of the first page
WhileCond_first ==
    IF first_total = None THEN TRUE ELSE start_at < first_total[1]

\* variant: the loop goes on while start_at <= total
WhileCond_le == IF total = None THEN TRUE ELSE start_at <= total[1]

\* while total is None or start_at < total
WhileCond == IF total = None THEN TRUE ELSE start_at < total[1]

\* workspaces the listing API may still return in this run
Remaining == MaxListed - Cardinality({k \in 1..Len(calls) : calls[k][1] = "activity"})

\* the page a static site returns for startAt = s, maxResults = max_results:
\* the workspaces at offsets [s, s + max_results)
StaticPage(s) ==
    LET len == IF s >= jira.n THEN 0
               ELSE IF jira.n - s < max_results THEN jira.n - s ELSE max_results
    IN  [k \in 1..len |-> s + k]

\* one page is a slice of the collection: no workspace twice in it
Distinct(q) == \A j, k \in 1..Len(q) : j # k => q[j] # q[k]

\* the bodies (total, ids of the values) a successful listing response may
\* carry; a site that may answer anything may list a workspace again on a
\* later page
ListAnswers ==
    IF jira.kind = "static"
    THEN {[total |-> jira.n, ids |-> StaticPage(start_at)]}
    ELSE [total : Totals,
          ids : {q \in SeqsUpTo(ProjectIds, Remaining) : Distinct(q)}]

\* one listing request and what the loop does with its response, up to
\* the start of "for project in data['values']"
ListRequest ==
    /\ pc = "while"
    /\ WhileCond
    /\ calls' = Append(calls, <<"list", start_at>>)
    /\ \E t \in Transport :
         IF t = "raised"
         THEN /\ resp' = None
              /\ Crash("ConnectionError")
              /\ UNCHANGED << total, values, first_total >>
         ELSE \E status \in ReadStatuses :
              /\ resp' = Some(status)
              /\ IF raise_for_status(status)
                THEN /\ Crash("HTTPError")
                     /\ UNCHANGED << total, values, first_total >>
                ELSE \E data \in ListAnswers :
                       /\ total' = Some(data.total)
                       /\ values' = [k \in 1..Len(data.ids) |-> Project(data.ids[k])]
                       /\ first_total' = IF first_total = None THEN Some(data.total)
                                         ELSE first_total
                       /\ pc' = "for"
                       /\ UNCHANGED << exitCode, error >>
    /\ UNCHANGED << env, jira, argv, args, cutoff, inactive, start_at, issues,
                    loopVars, sent >>

\* timestamps the activity API may report for the newest issue
\* as <<local time, UTC offset>>: around the cutoff, in UTC and one tick
\* east of it, and the time of the scan itself
Stamps ==
    LET c == cutoff[1]
    IN  {<<c, 1>>, <<c, 0>>, <<c + 1, 1>>, <<c + 1, 0>>, <<Now, 0>>}

\* the newest issue of workspace id on a static site: none, one updated
\* just before the cutoff (given one tick east of UTC), or one updated
\* exactly at the cutoff
StaticIssues(id) ==
    LET c == cutoff[1]
    IN  << << >>, << <<c, 1>> >>, << <<c, 0>> >> >>[((id + jira.pattern) % 3) + 1]

\* the issues an activity response may carry for a project
IssueAnswers(project) ==
    IF jira.kind = "static"
    THEN {StaticIssues(project.id)}
    ELSE {<< >>} \cup {<<s>> : s \in Stamps}

\* variant: the comparison with the cutoff is missing
Classify_all(project, iss, c) ==
    Some([id |-> project.id, key |-> project.key, name |-> project.name,
          last_updated |-> IF iss = << >> THEN None ELSE Some(isoparse(iss[1]))])

\* variant: a project without issues is skipped
Classify_emptyIsActive(project, iss, c) ==
    IF iss = << >>
    THEN None
    ELSE LET updated_at == isoparse(iss[1])
         IN  IF IsOlder(updated_at, c)
             THEN Some([id |-> project.id, key |-> project.key,
                        name |-> project.name,
                        last_updated |-> Some(updated_at)])
             ELSE None

\* variant: a project without issues is appended once per branch
Classify_twice(project, iss, c) ==
    LET entry(lu) == [id |-> project.id, key |-> project.key,
                      name |-> project.name, last_updated |-> lu]
    IN  IF iss = << >>
        THEN << entry(None), entry(None) >>
        ELSE LET updated_at == isoparse(iss[1])
             IN  IF IsOlder(updated_at, c) THEN Some(entry(Some(updated_at)))
                 ELSE None

\* the classification of one project from its newest issues
Classify(project, iss, c) ==
    IF iss = << >>
    THEN Some([id |-> project.id, key |-> project.key, name |-> project.name,
               last_updated |-> None])
    ELSE LET updated_at == isoparse(iss[1])
         IN  IF IsOlder(updated_at, c)
             THEN Some([id |-> project.id, key |-> project.key,
                        name |-> project.name,
                        last_updated |-> Some(updated_at)])
             ELSE None

\* the body of "for project in data['values']" for one project
ActivityQuery ==
    /\ pc = "for"
    /\ values # << >>
    /\ LET project == Head(values)
       IN  /\ calls' = Append(calls, <<"activity", project.key>>)
           /\ \E t \in Transport :
                IF t = "raised"
                THEN /\ resp' = None
                     /\ Crash("ConnectionError")
                     /\ UNCHANGED << inactive, values, issues >>
                ELSE \E status \in ReadStatuses :
                     /\ resp' = Some(status)
                     /\ IF raise_for_status(status)
                       THEN /\ Crash("HTTPError")
                            /\ UNCHANGED << inactive, values, issues >>
                       ELSE \E iss \in IssueAnswers(project) :
                              /\ issues' = Some(iss)
                              /\ inactive' = inactive \o Classify(project, iss, cutoff[1])
                              /\ values' = Tail(values)
                              /\ UNCHANGED << pc, exitCode, error >>
    /\ UNCHANGED << env, jira, argv, args, cutoff, start_at, total, loopVars,
                    first_total, sent >>

\* variant: the offset advances by one more than the page size
PageDone_skipsOne ==
    /\ pc = "for"
    /\ values = << >>
    /\ start_at' = start_at + max_results + 1
    /\ issues' = None
    /\ pc' = "while"
    /\ UNCHANGED << resp, env, jira, argv, exitCode, args, cutoff, inactive, total, values,
                    loopVars, calls, first_total, sent, error >>

\* start_at += max_results, at the end of the page's for loop; the last
\* activity response is not read again
PageDone ==
    /\ pc = "for"
    /\ values = << >>
    /\ start_at' = start_at + max_results
    /\ issues' = None
    /\ pc' = "while"
    /\ UNCHANGED << resp, env, jira, argv, exitCode, args, cutoff, inactive, total, values,
                    loopVars, calls, first_total, sent, error >>

\* return inactive: the locals of the scan go out of scope
FindReturn ==
    /\ pc = "while"
    /\ ~WhileCond
    /\ pc' = "scanned"
    /\ start_at' = 0
    /\ total' = None
    /\ UNCHANGED << resp, env, jira, argv, exitCode, args, cutoff, inactive, values, issues,
                    loopVars, calls, first_total, sent, error >>

(* ---------------------------- notify_slack ----------------------------- *)
\* fates of the webhook POST; each is caught inside notify_slack
SlackFates == {"sent", "ConnectionError", "HTTPError"}

\* variant: no try/except around the webhook POST
notify_slack_raises(msg) ==
    /\ calls' = Append(calls, <<"notify", msg.kind>>)
    /\ \E fate \in SlackFates :
         IF fate = "sent"
         THEN /\ sent' = Append(sent, [msg |-> msg, delivered |-> TRUE])
              /\ pc' = "done"
              /\ exitCode' = Some(0)
              /\ UNCHANGED error
         ELSE /\ Crash(fate)
              /\ UNCHANGED sent

\* notify_slack(msg), as the last statement of main
notify_slack(msg) ==
    /\ calls' = Append(calls, <<"notify", msg.kind>>)
    /\ \E fate \in SlackFates :
         sent' = Append(sent, [msg |-> msg, delivered |-> fate = "sent"])
    /\ pc' = "done"
    /\ exitCode' = Some(0)
    /\ UNCHANGED error

NoMsg == [kind |-> "", count |-> 0, days |-> 0, listing |-> << >>,
          archived |-> << >>, failed |-> << >>]

\* p['last_updated'].date() if p['last_updated'] else 'never'
LastUpdateDate(p) ==
    IF p.last_updated = None THEN None
    ELSE Some(p.last_updated[1].local \div DayTicks)

Bullets(ps) == [k \in 1..Len(ps) |-> <<ps[k].name, ps[k].key>>]

(* ------------------------- main, after the scan ------------------------ *)
\* variant: an empty result ends the run without a notification
MainEmpty_silent ==
    /\ pc = "scanned"
    /\ inactive = << >>
    /\ pc' = "done"
    /\ exitCode' = Some(0)
    /\ UNCHANGED << resp, env, jira, argv, args, scanVars, loopVars, first_total,
                    calls, sent, error >>

\* if not inactive: notify_slack(...); return
MainEmpty ==
    /\ pc = "scanned"
    /\ inactive = << >>
    /\ notify_slack([NoMsg EXCEPT !.kind = "noop"])
    /\ UNCHANGED << resp, env, jira, argv, args, scanVars, loopVars, first_total >>

\* variant: the dry-run branch is tested before the empty branch
MainDryRun_beforeEmpty ==
    /\ pc = "scanned"
    /\ args.dry_run
    /\ notify_slack([NoMsg EXCEPT
          !.kind = "dryrun",
          !.count = Len(inactive),
          !.listing = [k \in 1..Len(inactive) |->
                         <<inactive[k].name, inactive[k].key,
                           LastUpdateDate(inactive[k])>>]])
    /\ UNCHANGED << resp, env, jira, argv, args, scanVars, loopVars, first_total >>

\* if args.dry_run: ...; notify_slack(msg); return
MainDryRun ==
    /\ pc = "scanned"
    /\ inactive # << >>
    /\ args.dry_run
    /\ notify_slack([NoMsg EXCEPT
          !.kind = "dryrun",
          !.count = Len(inactive),
          !.listing = [k \in 1..Len(inactive) |->
                         <<inactive[k].name, inactive[k].key,
                           LastUpdateDate(inactive[k])>>]])
    /\ UNCHANGED << resp, env, jira, argv, args, scanVars, loopVars, first_total >>

\* variant: the archive loop is entered without looking at args.dry_run
MainExecute_ignoresDryRun ==
    /\ pc = "scanned"
    /\ inactive # << >>
    /\ archived' = << >>
    /\ failed' = << >>
    /\ i' = 1
    /\ pc' = "archive"
    /\ UNCHANGED << resp, env, jira, argv, exitCode, args, scanVars, calls, first_total,
                    sent, error >>

\* archived, failed = [], []
MainExecute ==
    /\ pc = "scanned"
    /\ inactive # << >>
    /\ ~args.dry_run
    /\ archived' = << >>
    /\ failed' = << >>
    /\ i' = 1
    /\ pc' = "archive"
    /\ UNCHANGED << resp, env, jira, argv, exitCode, args, scanVars, calls, first_total, sent,
                    error >>

\* the statuses the archive API may answer with for a project; a static
\* site accepts the even ids and refuses the odd ones
ArchiveAnswers(p) ==
    IF jira.kind = "static"
    THEN {IF p.id % 2 = 0 THEN HTTP_ACCEPTED ELSE 403}
    ELSE ArchiveStatuses

\* archive_project's verdict on a response
archive_ok(status) == status = HTTP_ACCEPTED

\* variant: the loop is left at the first archive that fails
ArchiveStep_stopsOnFailure ==
    /\ pc = "archive"
    /\ i <= Len(inactive)
    /\ LET p == inactive[i]
       IN  /\ calls' = Append(calls, <<"archive", p.id>>)
           /\ \E t \in Transport :
                IF t = "raised"
                THEN /\ resp' = None
                     /\ Crash("ConnectionError")
                     /\ UNCHANGED loopVars
                ELSE \E status \in ArchiveAnswers(p) :
                       /\ resp' = Some(status)
                       /\ IF status = HTTP_ACCEPTED
                          THEN /\ archived' = Append(archived, p)
                               /\ i' = i + 1
                               /\ UNCHANGED failed
                          ELSE /\ failed' = Append(failed, p)
                               /\ i' = Len(inactive) + 1
                               /\ UNCHANGED archived
                       /\ UNCHANGED << pc, exitCode, error >>
    /\ UNCHANGED << env, jira, argv, args, scanVars, first_total, sent >>

\* (archived if archive_project(p) else failed).append(p)
ArchiveStep ==
    /\ pc = "archive"
    /\ i <= Len(inactive)
    /\ LET p == inactive[i]
       IN  /\ calls' = Append(calls, <<"archive", p.id>>)
           /\ \E t \in Transport :
                IF t = "raised"
                THEN /\ resp' = None
                     /\ Crash("ConnectionError")
                     /\ UNCHANGED loopVars
                ELSE \E status \in ArchiveAnswers(p) :
                       /\ resp' = Some(status)
                       /\ IF archive_ok(status)
                          THEN /\ archived' = Append(archived, p)
                               /\ UNCHANGED failed
                          ELSE /\ failed' = Append(failed, p)
                               /\ UNCHANGED archived
                       /\ i' = i + 1
                       /\ UNCHANGED << pc, exitCode, error >>
    /\ UNCHANGED << env, jira, argv, args, scanVars, first_total, sent >>

\* resp.text of an archive response, as logged by archive_project
resp_text(status) == << "body", status >>

\* variant: the summary has no failed section
MainSummary_noFailedSection ==
    /\ pc = "archive"
    /\ i > Len(inactive)
    /\ notify_slack([NoMsg EXCEPT
          !.kind = "summary",
          !.count = Len(archived),
          !.days = args.days,
          !.archived = Bullets(archived)])
    /\ UNCHANGED << resp, env, jira, argv, args, scanVars, loopVars, first_total >>

\* variant: the summary counts every project the loop went through
MainSummary_countsProcessed ==
    /\ pc = "archive"
    /\ i > Len(inactive)
    /\ notify_slack([NoMsg EXCEPT
          !.kind = "summary",
          !.count = Len(archived) + Len(failed),
          !.days = args.days,
          !.archived = Bullets(archived),
          !.failed = Bullets(failed)])
    /\ UNCHANGED << resp, env, jira, argv, args, scanVars, loopVars, first_total >>

\* summary = [...]; notify_slack("\n".join(summary))
MainSummary ==
    /\ pc = "archive"
    /\ i > Len(inactive)
    /\ notify_slack([NoMsg EXCEPT
          !.kind = "summary",
          !.count = Len(archived),
          !.days = args.days,
          !.archived = Bullets(archived),
          !.failed = Bullets(failed)])
    /\ UNCHANGED << resp, env, jira, argv, args, scanVars, loopVars, first_total >>

Next ==
    \/ ConfigCheck
    \/ ParseArgs
    \/ FindStart
    \/ ListRequest
    \/ ActivityQuery
    \/ PageDone
    \/ FindReturn
    \/ MainEmpty
    \/ MainDryRun
    \/ MainExecute
    \/ ArchiveStep
    \/ MainSummary

Spec == Init /\ [][Next]_vars

\* the same program against a static, well-behaved Jira site
SpecStatic == InitStatic /\ [][Next]_vars

\* the interpreter keeps running the process: a step that can be taken is
\* taken, since every external call of the model returns or raises
FairSpec == Spec /\ WF_vars(Next)

(* ====================================================================== *)
(*                       Properties of the program                       *)
(* ====================================================================== *)

\* positions in calls of the requests of one kind
CallsOf(kind) == {k \in 1..Len(calls) : calls[k][1] = kind}

IsArchiveCall(c) == c[1] = "archive"

\* ids of the archive requests issued so far, in order
ArchiveIds ==
    LET reqs == SelectSeq(calls, IsArchiveCall)
    IN  [k \in 1..Len(reqs) |-> reqs[k][2]]

\* ids of the inactive workspaces, in the order Discovery returned them
InactiveIds == [k \in 1..Len(inactive) |-> inactive[k].id]

LastCall == calls[Len(calls)]

\* the scan is over: find_inactive_projects has returned
ScanOver == pc \in {"scanned", "archive", "done"}
            \/ (pc = "crashed" /\ CallsOf("archive") # {})

(* ---------------------------------------------------------------------- *)
(* C1: an archive request is issued only for a workspace that Discovery   *)
(* put in its result in this run, and every workspace of the result had   *)
(* no issues or a newest update strictly before the cutoff; no archive    *)
(* request is issued while the scan is running: every listing and         *)
(* activity request precedes every archive request.                       *)
(* ---------------------------------------------------------------------- *)
C1_ArchiveOnlyInactive ==
    /\ \A k \in 1..Len(inactive) :
          \/ inactive[k].last_updated = None
          \/ inactive[k].last_updated[1].local - inactive[k].last_updated[1].off
                < cutoff[1]
    /\ \A k \in CallsOf("archive") :
          /\ \E j \in 1..Len(inactive) : inactive[j].id = calls[k][2]
          /\ pc \in {"archive", "done", "crashed"}
          /\ \A m \in CallsOf("list") \cup CallsOf("activity") : m < k

\* an archive request went out in a run where Discovery also met an active
\* workspace
C1_Witness ==
    /\ CallsOf("archive") # {}
    /\ Len(inactive) < Cardinality(CallsOf("activity"))
    /\ pc = "done"

(* ---------------------------------------------------------------------- *)
(* C2: with --dry-run on the command line no archive request is ever      *)
(* issued and the archive loop is never entered; at most one notification *)
(* is sent, and it is the preview or the no-op summary.                   *)
(* ---------------------------------------------------------------------- *)
C2_DryRunNeverArchives ==
    argv.dry =>
        /\ CallsOf("archive") = {}
        /\ pc # "archive"
        /\ archived = << >> /\ failed = << >>
        /\ Len(sent) <= 1
        /\ Cardinality(CallsOf("notify")) = Len(sent)
        /\ \A k \in 1..Len(sent) : sent[k].msg.kind \in {"dryrun", "noop"}

\* a dry run that found inactive workspaces and sent its preview
C2_Witness ==
    /\ argv.dry
    /\ pc = "done"
    /\ Len(inactive) >= 2
    /\ Len(sent) = 1 /\ sent[1].msg.kind = "dryrun"

(* ---------------------------------------------------------------------- *)
(* C3: when Discovery returns no inactive workspace, with or without      *)
(* --dry-run, the only step main can take is the no-op notification: the  *)
(* run ends with exactly one notification, the no-op summary, and no      *)
(* archive request.                                                       *)
(* ---------------------------------------------------------------------- *)
C3_EmptyResultOneNoop ==
    (ScanOver /\ inactive = << >>) =>
        /\ CallsOf("archive") = {}
        /\ pc \in {"scanned", "done"}
        /\ pc = "scanned" => /\ sent = << >>
                             /\ CallsOf("notify") = {}
                             /\ ENABLED MainEmpty
                             /\ ~ENABLED MainDryRun
                             /\ ~ENABLED MainExecute
        /\ pc = "done" => /\ Len(sent) = 1
                          /\ sent[1].msg.kind = "noop"
                          /\ Cardinality(CallsOf("notify")) = 1
                          /\ LastCall[1] = "notify"

\* a dry run whose scan listed workspaces, found none inactive and ended
C3_Witness ==
    /\ pc = "done"
    /\ inactive = << >>
    /\ argv.dry
    /\ CallsOf("activity") # {}
    /\ Len(sent) = 1

(* ---------------------------------------------------------------------- *)
(* C4: when a listing request or an activity query is answered with a     *)
(* non-success status (4xx/5xx), the run ends there with the propagated   *)
(* HTTPError: nothing was notified, nothing was archived, and the process *)
(* takes no further step, so no request of any kind follows and what was  *)
(* already classified inactive is never reported.                         *)
(* ---------------------------------------------------------------------- *)
ScanRequestFailed ==
    /\ calls # << >>
    /\ LastCall[1] \in {"list", "activity"}
    /\ resp # None
    /\ resp[1] >= 400

C4_DiscoveryErrorAborts ==
    /\ [](ScanRequestFailed =>
            /\ pc = "crashed"
            /\ error = "HTTPError"
            /\ exitCode = Some(1)
            /\ sent = << >>
            /\ CallsOf("notify") = {}
            /\ CallsOf("archive") = {})
    /\ [][pc # "crashed"]_vars

\* the listing of a later page failed after an earlier page had already
\* yielded an inactive workspace
C4_Witness ==
    /\ ScanRequestFailed
    /\ LastCall[1] = "list"
    /\ inactive # << >>
    /\ pc = "crashed"

NotifyIssued ==
    /\ Len(calls') = Len(calls) + 1
    /\ calls'[Len(calls')][1] = "notify"

C6_NotifyNeverRaises ==
    [][NotifyIssued =>
         /\ pc' = "done"
         /\ exitCode' = Some(0)
         /\ error' = ""
         /\ Len(sent') = Len(sent) + 1
         /\ ArchiveIds' = ArchiveIds
         /\ UNCHANGED << inactive, archived, failed, resp >>]_vars

\* the archive summary was not delivered, and the run still ended normally
C6_Witness ==
    /\ pc = "done"
    /\ exitCode = Some(0)
    /\ Len(sent) = 1
    /\ ~sent[1].delivered
    /\ sent[1].msg.kind = "summary"
    /\ archived # << >>

(* ---------------------------------------------------------------------- *)
(* C7: when an activity query returns a newest issue, the workspace is    *)
(* added to the result if and only if the instant of its update is        *)
(* strictly earlier than the cutoff; an update exactly at the cutoff      *)
(* leaves the result unchanged, for every threshold.                      *)
(* ---------------------------------------------------------------------- *)
\* a step in which an activity query was answered and classified
QueryAnswered ==
    /\ pc = "for" /\ pc' = "for"
    /\ Len(calls') = Len(calls) + 1

C7_BoundaryIsActive ==
    [][(QueryAnswered /\ issues'[1] # << >>) =>
         LET stamp == issues'[1][1]
             at    == stamp[1] - stamp[2]
         IN  IF at < cutoff[1]
             THEN /\ Len(inactive') = Len(inactive) + 1
                  /\ inactive'[Len(inactive')].id = Head(values).id
                  /\ inactive'[Len(inactive')].last_updated # None
                  /\ SubSeq(inactive', 1, Len(inactive)) = inactive
             ELSE inactive' = inactive]_vars

\* with the default threshold, a newest update exactly at the cutoff (given
\* in a non-UTC offset) was answered and the result is still empty
C7_Witness ==
    /\ pc = "for"
    /\ args.days = DEFAULT_INACTIVE_DAYS
    /\ issues # None
    /\ issues[1] # << >>
    /\ issues[1][1][2] # 0
    /\ issues[1][1][1] - issues[1][1][2] = cutoff[1]
    /\ inactive = << >>

(* ---------------------------------------------------------------------- *)
(* C8: when an activity query returns no issue, the workspace is appended *)
(* to the result with last_updated absent, for every threshold.           *)
(* ---------------------------------------------------------------------- *)
C8_NoIssuesIsInactive ==
    [][(QueryAnswered /\ issues'[1] = << >>) =>
         inactive' = Append(inactive,
                            [id |-> Head(values).id, key |-> Head(values).key,
                             name |-> Head(values).name,
                             last_updated |-> None])]_vars

\* a workspace without issues is in the result, under a threshold of 0 days
C8_Witness ==
    /\ pc = "for"
    /\ args.days = 0
    /\ issues = Some(<< >>)
    /\ inactive # << >>
    /\ inactive[Len(inactive)].last_updated = None

(* ---------------------------------------------------------------------- *)
(* C9: the threshold that reaches Discovery is never negative and is 180  *)
(* when --days is absent, so the cutoff is never later than the time of   *)
(* the scan.                                                              *)
(* ---------------------------------------------------------------------- *)
C9_ThresholdNonNegative ==
    pc \notin {"config", "main", "exit"} =>
        /\ args.days >= 0
        /\ argv.daysKind = "absent" => args.days = DEFAULT_INACTIVE_DAYS
        /\ cutoff # None => cutoff[1] <= Now

(* ---------------------------------------------------------------------- *)
(* C10, as stated: the number of workspaces in Discovery's result never   *)
(* exceeds the total reported by the first listing response.              *)
(* ---------------------------------------------------------------------- *)
C10_AtMostFirstTotal ==
    first_total # None => Len(inactive) <= first_total[1]

(* ---------------------------------------------------------------------- *)
(* C10, amended: the number of workspaces in Discovery's result never     *)
(* exceeds the number of workspaces the listing responses of the run      *)
(* delivered, each of which got one activity query.                       *)
(* ---------------------------------------------------------------------- *)
C10_AtMostListed ==
    Len(inactive) <= Cardinality(CallsOf("activity"))

\* the scan returned more workspaces than the first page's total
C10_Witness ==
    /\ pc = "scanned"
    /\ first_total # None
    /\ Len(inactive) > first_total[1]
    /\ Len(inactive) = Cardinality(CallsOf("activity"))

(* ---------------------------------------------------------------------- *)
(* C11: the workspaces of Discovery's result have pairwise different ids, *)
(* and no id is sent to the archive API twice in one run.                 *)
(* ---------------------------------------------------------------------- *)
C11_UniqueIds ==
    /\ \A j, k \in 1..Len(inactive) :
          j # k => inactive[j].id # inactive[k].id
    /\ \A j, k \in 1..Len(ArchiveIds) :
          j # k => ArchiveIds[j] # ArchiveIds[k]

\* the archive summary of the run, once handed to notify_slack
SummarySent == sent # << >> /\ sent[Len(sent)].msg.kind = "summary"

Summary == sent[Len(sent)].msg

(* ---------------------------------------------------------------------- *)
(* C12, as stated: the count in the archive summary is the number of      *)
(* inactive workspaces the archive loop processed, archived plus failed.  *)
(* ---------------------------------------------------------------------- *)
C12_CountIsProcessed ==
    SummarySent => Summary.count = Len(archived) + Len(failed)

(* ---------------------------------------------------------------------- *)
(* C12, amended: the count in the archive summary is the number of        *)
(* workspaces archived successfully; the loop processed every inactive    *)
(* workspace, so the count falls short of the number processed by the     *)
(* number of failures.                                                    *)
(* ---------------------------------------------------------------------- *)
C12_CountIsArchived ==
    SummarySent =>
        /\ Summary.count = Len(archived)
        /\ Len(archived) + Len(failed) = Len(inactive)
        /\ Summary.count = Len(inactive) - Len(failed)

\* a summary after one archive succeeded and one was refused
C12_Witness ==
    /\ SummarySent
    /\ Len(archived) = 1
    /\ Len(failed) = 1
    /\ Summary.count = 1

\* the last archive request of the run was answered with a status other
\* than 202
LastArchiveRefused ==
    /\ SummarySent
    /\ resp # None
    /\ ~archive_ok(resp[1])

(* ---------------------------------------------------------------------- *)
(* C13, as stated: when the archive API answers a workspace with a status *)
(* other than 202, the summary lists the workspace under failed together  *)
(* with the body of that response.                                        *)
(* ---------------------------------------------------------------------- *)
C13_FailedWithDetail ==
    LastArchiveRefused =>
        /\ Summary.failed # << >>
        /\ LET p == inactive[Len(inactive)]
           IN  Summary.failed[Len(Summary.failed)] =
                   << p.name, p.key, resp_text(resp[1]) >>

(* ---------------------------------------------------------------------- *)
(* C13, amended: when the archive API answers a workspace with a status   *)
(* other than 202, the summary lists the workspace under failed by name   *)
(* and key only; no entry of the summary carries a response body.         *)
(* ---------------------------------------------------------------------- *)
C13_FailedByNameAndKey ==
    /\ LastArchiveRefused =>
          /\ Summary.failed # << >>
          /\ LET p == inactive[Len(inactive)]
             IN  Summary.failed[Len(Summary.failed)] = << p.name, p.key >>
    /\ SummarySent =>
          /\ Len(Summary.failed) = Len(failed)
          /\ \A k \in 1..Len(failed) :
                Summary.failed[k] = << failed[k].name, failed[k].key >>
          /\ \A k \in 1..Len(Summary.archived) :
                Len(Summary.archived[k]) = 2

\* a delivered summary after the archive API answered 403
C13_Witness ==
    /\ LastArchiveRefused
    /\ resp = Some(403)
    /\ sent[Len(sent)].delivered
    /\ Summary.failed # << >>

\* how many entries of a list of projects have the id
Occurrences(ps, id) == Cardinality({k \in 1..Len(ps) : ps[k].id = id})

(* ---------------------------------------------------------------------- *)
(* C14: a workspace is in the archived list iff its archive request was   *)
(* answered 202 and in the failed list otherwise; the two lists are       *)
(* disjoint and together hold every inactive workspace exactly once; the  *)
(* summary has a failed section iff the failed list is not empty.         *)
(* ---------------------------------------------------------------------- *)
C14_Partition ==
    SummarySent =>
        /\ resp # None =>
              IF resp[1] = HTTP_ACCEPTED
              THEN /\ archived # << >>
                   /\ archived[Len(archived)] = inactive[Len(inactive)]
              ELSE /\ failed # << >>
                   /\ failed[Len(failed)] = inactive[Len(inactive)]
        /\ \A j \in 1..Len(archived), k \in 1..Len(failed) :
              archived[j].id # failed[k].id
        /\ \A n \in 1..Len(inactive) :
              Occurrences(archived, inactive[n].id)
                + Occurrences(failed, inactive[n].id) = 1
        /\ Len(archived) + Len(failed) = Len(inactive)
        /\ (Summary.failed # << >>) <=> (failed # << >>)

\* the process has ended
Ended == exitCode # None

\* a Jira request raised, or raise_for_status raised on a listing or
\* activity response, and nothing caught it
JiraRequestFailed ==
    /\ calls # << >>
    /\ LastCall[1] \in {"list", "activity", "archive"}
    /\ \/ resp = None
       \/ LastCall[1] # "archive" /\ resp[1] >= 400

(* ---------------------------------------------------------------------- *)
(* C15, as stated: the exit code is 1 iff a required configuration value  *)
(* is missing or empty, and 0 in every other run, whatever else failed.   *)
(* ---------------------------------------------------------------------- *)
C15_ExitOneIffConfig ==
    Ended =>
        /\ exitCode[1] = 1 <=> ~ConfigOk(env)
        /\ ConfigOk(env) => exitCode[1] = 0

(* ---------------------------------------------------------------------- *)
(* C15, amended: the exit code is 1 when a required configuration value   *)
(* is missing or empty and also when a Jira request fails with an         *)
(* exception nobody catches; it is 2 when the command line is rejected;   *)
(* it is 0 exactly when main returns after its notification, whatever the *)
(* archive statuses and the fate of the notification were.                *)
(* ---------------------------------------------------------------------- *)
C15_ExitCodes ==
    /\ Ended <=> pc \in {"exit", "crashed", "done"}
    /\ Ended =>
          /\ exitCode[1] \in {0, 1, 2}
          /\ exitCode[1] = 1 <=>
                \/ ~ConfigOk(env)
                \/ JiraRequestFailed /\ sent = << >>
          /\ exitCode[1] = 2 <=>
                /\ ConfigOk(env)
                /\ argv.daysKind = "bad"
          /\ exitCode[1] = 0 <=>
                /\ ConfigOk(env)
                /\ sent # << >>
                /\ LastCall[1] = "notify"

\* a complete configuration, a listing request that raised: exit code 1
C15_Witness ==
    /\ ConfigOk(env)
    /\ exitCode = Some(1)
    /\ LastCall[1] = "list"
    /\ resp = None
    /\ error = "ConnectionError"

\* one of the four configuration values is not set, or set to nothing
ConfigIncomplete == \E n \in EnvNames : env[n] = "unset" \/ env[n] = ""

(* ---------------------------------------------------------------------- *)
(* C16: when one of the four required configuration values is missing or  *)
(* empty, the process ends before any network activity: the run issues no *)
(* listing request, activity query, archive request or notification.      *)
(* ---------------------------------------------------------------------- *)
C16_NoNetworkWithoutConfig ==
    ConfigIncomplete =>
        /\ calls = << >>
        /\ sent = << >>
        /\ pc \in {"config", "exit"}
        /\ pc = "exit" => exitCode = Some(1)

\* the run has ended on a configuration with one empty and one missing value
C16_Witness ==
    /\ \E n \in EnvNames : env[n] = ""
    /\ \E n \in EnvNames : env[n] = "unset"
    /\ \E n \in EnvNames : env[n] = "x"
    /\ pc = "exit"
    /\ error = "config"
    /\ calls = << >>

\* the configuration and the command line were accepted and no Jira
\* request has failed: none raised, none of Discovery's was refused
RunUnhindered ==
    /\ ~ConfigIncomplete
    /\ argv.daysKind # "bad"
    /\ ~JiraRequestFailed

\* the run ended in Done by one branch, with one notification, issued last
DoneProperly ==
    /\ pc = "done"
    /\ Cardinality(CallsOf("notify")) = 1
    /\ LastCall[1] = "notify"
    /\ Len(sent) = 1
    /\ LET kind == sent[1].msg.kind
       IN  /\ kind = "noop" <=> inactive = << >>
           /\ kind = "dryrun" <=> (inactive # << >> /\ args.dry_run)
           /\ kind = "summary" <=> (inactive # << >> /\ ~args.dry_run)
           /\ CallsOf("archive") # {} => kind = "summary"
           /\ LastCall[2] = kind

(* ---------------------------------------------------------------------- *)
(* C17, as stated: a run whose external calls all return ends in Done,    *)
(* through one of Empty, DryRun and Execute, with exactly one             *)
(* notification request, which is its last external call.                 *)
(* ---------------------------------------------------------------------- *)
C17_DoneWheneverCallsReturn ==
    (Ended /\ calls # << >> /\ error # "ConnectionError") => DoneProperly

(* ---------------------------------------------------------------------- *)
(* C17, amended: every run ends; a run that got past the configuration    *)
(* check and the command line, whose Jira calls all returned and whose    *)
(* listing and activity requests were all answered with a success status, *)
(* ends in Done, through exactly one of Empty, DryRun and Execute, with   *)
(* exactly one notification request, which is its last external call;     *)
(* nothing happens after Done.                                            *)
(* ---------------------------------------------------------------------- *)
C17_ReachesDoneOnce ==
    /\ <>Ended
    /\ []((Ended /\ RunUnhindered) => DoneProperly)
    /\ [][pc # "done"]_vars

\* Done after Execute: two archive requests, then the one notification
C17_Witness ==
    /\ RunUnhindered
    /\ DoneProperly
    /\ Cardinality(CallsOf("archive")) = 2
    /\ Cardinality(CallsOf("list")) = 2

\* ceil(n / max_results)
CeilPages(n) == (n + max_results - 1) \div max_results

\* the run talks to a site that reports the same total on every page
StaticRun == jira.kind = "static"

(* ---------------------------------------------------------------------- *)
(* C18, as stated: Discovery performs exactly ceil(total / 50) listing    *)
(* requests and one activity query per listed workspace, for every total  *)
(* from 0 on.                                                             *)
(* ---------------------------------------------------------------------- *)
C18_CeilListingRequests ==
    (StaticRun /\ ScanOver) =>
        /\ Cardinality(CallsOf("list")) = CeilPages(jira.n)
        /\ Cardinality(CallsOf("activity")) = jira.n

(* ---------------------------------------------------------------------- *)
(* C18, amended: a Discovery run that completes against a listing API     *)
(* reporting the same total on every page performs ceil(total / 50)       *)
(* listing requests, but one when the total is 0, at the offsets 0, 50,   *)
(* 100, ..., and one activity query per listed workspace.                 *)
(* ---------------------------------------------------------------------- *)
C18_AtLeastOneListingRequest ==
    (StaticRun /\ ScanOver) =>
        /\ Cardinality(CallsOf("list")) =
              IF jira.n = 0 THEN 1 ELSE CeilPages(jira.n)
        /\ \A k \in 1..Cardinality(CallsOf("list")) :
              \E c \in CallsOf("list") : calls[c] = <<"list", (k - 1) * max_results>>
        /\ Cardinality(CallsOf("activity")) = jira.n

\* a completed scan of 51 workspaces: two listing requests, 51 queries
C18_Witness ==
    /\ StaticRun
    /\ pc = "scanned"
    /\ jira.n = max_results + 1
    /\ Cardinality(CallsOf("list")) = 2
    /\ Cardinality(CallsOf("activity")) = max_results + 1

\* number of pages a total asks for, the first one being fetched anyway
PagesFor(n) == IF n = 0 THEN 1 ELSE CeilPages(n)

(* ---------------------------------------------------------------------- *)
(* C19, as stated: the loop stops as soon as the offset reaches the total *)
(* reported by the first page; later totals do not matter, so the number  *)
(* of pages is fixed by the first response.                               *)
(* ---------------------------------------------------------------------- *)
C19_PagesFixedByFirstTotal ==
    (pc = "scanned" /\ first_total # None) =>
        Cardinality(CallsOf("list")) = PagesFor(first_total[1])

(* ---------------------------------------------------------------------- *)
(* C19, amended: the loop advances the offset by 50 after each page and   *)
(* stops as soon as the offset reaches the total reported by the page     *)
(* fetched last; the first page's total decides only whether there is a   *)
(* second page.                                                           *)
(* ---------------------------------------------------------------------- *)
C19_StopsAtLatestTotal ==
    /\ pc = "while" =>
          /\ start_at = max_results * Cardinality(CallsOf("list"))
          /\ (ENABLED FindReturn) <=> (total # None /\ start_at >= total[1])
          /\ (ENABLED ListRequest) <=> ~(ENABLED FindReturn)
    /\ pc = "for" =>
          /\ start_at = max_results * (Cardinality(CallsOf("list")) - 1)
          /\ total # None
          /\ start_at = 0 => total = first_total
    /\ (ScanOver /\ first_total # None /\ first_total[1] <= max_results)
          => Cardinality(CallsOf("list")) = 1

\* the first page said 51, a later page said more: the scan took three pages
C19_Witness ==
    /\ pc = "scanned"
    /\ first_total = Some(max_results + 1)
    /\ Cardinality(CallsOf("list")) = 3
    /\ \E c \in CallsOf("list") : calls[c] = <<"list", 2 * max_results>>

IsActivityCall(c) == c[1] = "activity"

\* keys of the activity queries issued so far, in order
QueriedKeys ==
    LET reqs == SelectSeq(calls, IsActivityCall)
    IN  [k \in 1..Len(reqs) |-> reqs[k][2]]

\* workspace id of a static site is inactive: it has no issue, or its
\* newest issue was updated at an instant strictly before the cutoff
StaticallyInactive(id) ==
    LET iss == StaticIssues(id)
    IN  \/ iss = << >>
        \/ iss[1][1] - iss[1][2] < cutoff[1]

(* ---------------------------------------------------------------------- *)
(* C20: against a static collection of N workspaces served in pages of    *)
(* 50 by offset, a Discovery run that completes has queried the activity  *)
(* of every workspace exactly once, in listing order, and returns exactly *)
(* the inactive ones (no issue, or newest update strictly before the      *)
(* cutoff), in listing order, none skipped or repeated at a page          *)
(* boundary.                                                              *)
(* ---------------------------------------------------------------------- *)
C20_StaticScanExact ==
    (StaticRun /\ pc = "scanned") =>
        /\ QueriedKeys = [k \in 1..jira.n |-> KeyOf(k)]
        /\ \A j, k \in 1..Len(inactive) : j < k => inactive[j].id < inactive[k].id
        /\ {inactive[k].id : k \in 1..Len(inactive)} =
              {id \in 1..jira.n : StaticallyInactive(id)}
        /\ \A k \in 1..Len(inactive) : inactive[k].key = KeyOf(inactive[k].id)

\* more than 100 workspaces over three pages, the ones at both page boundaries
\* (50 and 51, 100 and 101) among them
C20_Witness ==
    /\ StaticRun
    /\ pc = "scanned"
    /\ jira.n > 2 * max_results
    /\ Cardinality(CallsOf("list")) = 3
    /\ Len(QueriedKeys) = jira.n
    /\ \E k \in 1..Len(inactive) : inactive[k].id = max_results + 1
    /\ \E k \in 1..Len(inactive) : inactive[k].id = 2 * max_results + 1
    /\ Len(inactive) < jira.n

=============================================================================
